---- MODULE Spec2Model ----
(***************************************************************************)
(* Model of the terminal Snake game of src/src/main.rs: the Snake, Food    *)
(* and Game structs and the render/input/update loop of main.              *)
(*                                                                         *)
(* A position is a pair <<y, x>> (SnakePiece(y, x), Food{y, x}); p[1] is   *)
(* the row (.0) and p[2] the column (.1).  Snake.parts is a sequence whose *)
(* first element is the head (LinkedList front) and whose last element is  *)
(* the tail (LinkedList back).  An Option<T> is a sequence of length <= 1. *)
(***************************************************************************)
EXTENDS Integers, Sequences, FiniteSets, TLC

VARIABLES
    rows, cols,        \* Game.rows, Game.cols
    parts,             \* Snake.parts
    dir,               \* Snake.dir
    just_eaten,        \* Snake.just_eaten
    score,             \* Snake.score
    speed,             \* Snake.speed
    food,              \* <<Food.y, Food.x>>
    quit,              \* main's local `quit`
    pc,                \* position of the single thread in main / Game.update
    new_dir,           \* Option<Direction> that Direction::input gave this tick
    old,               \* Option: the game as the last Game.update found it
    snake_ret,         \* Option<bool>: what the last Snake.update returned
    game_ret,          \* Option<bool>: what the last Game.update returned,
                       \* <<>> while a Game.update is running
    ticks_left         \* loop iterations the model still follows

vars == <<rows, cols, parts, dir, just_eaten, score, speed, food, quit, pc,
          new_dir, old, snake_ret, game_ret, ticks_left>>

(***************************************************************************)
(* Bounds of the model and constants of the program.                       *)
(***************************************************************************)
\* loop iterations followed from main's initial state
MaxTicks == 12
\* columns of the one-row window in which the speed is followed to its floor
CorridorCols == 48
\* loop iterations followed from a mid-game state
MidTicks == 2
\* largest grid of the mid-game states
MidRows == 2
MidCols == 3
\* longest snake of the mid-game states
MaxLen == 5

\* speed: 500 in main
StartSpeed == 500
\* the `+ 5` of the food's initial position in main
FoodOffset == 5
\* the divisor of `self.speed / 10`
SpeedDivisor == 10

\* window sizes (get_max_y, get_max_x) the game is started with
Windows == {1, 2, 11} \X {1, 2, 11}

Directions == {"Down", "Right", "Up", "Left"}

\* what window.getch() can yield: the eight movement characters, F1, any
\* other key, and None when the timeout elapses
Keys == {"w", "a", "s", "d", "h", "j", "k", "l", "F1", "other", "timeout"}

(***************************************************************************)
(* Direction::input                                                        *)
(***************************************************************************)
Direction_input(input) ==
    CASE input = "w" -> <<"Up">>
      [] input = "a" -> <<"Left">>
      [] input = "s" -> <<"Down">>
      [] input = "d" -> <<"Right">>
      [] input = "h" -> <<"Left">>
      [] input = "j" -> <<"Down">>
      [] input = "k" -> <<"Up">>
      [] input = "l" -> <<"Right">>
      [] OTHER -> <<>>

(***************************************************************************)
(* SnakePiece                                                              *)
(***************************************************************************)
\* is_collide_edge testing `rows - 2` and `cols - 2`: one cell too early
is_collide_edge_early(piece, d, r, c) ==
    CASE d = "Down"  /\ piece[1] >= r - 2 -> TRUE
      [] d = "Right" /\ piece[2] >= c - 2 -> TRUE
      [] d = "Up"    /\ piece[1] <= 0     -> TRUE
      [] d = "Left"  /\ piece[2] <= 0     -> TRUE
      [] OTHER -> FALSE

\* is_collide_edge testing `>= rows` and `>= cols`: one cell too late
is_collide_edge_late(piece, d, r, c) ==
    CASE d = "Down"  /\ piece[1] >= r -> TRUE
      [] d = "Right" /\ piece[2] >= c -> TRUE
      [] d = "Up"    /\ piece[1] <= 0 -> TRUE
      [] d = "Left"  /\ piece[2] <= 0 -> TRUE
      [] OTHER -> FALSE

is_collide_edge(piece, d, r, c) ==
    CASE d = "Down"  /\ piece[1] >= r - 1 -> TRUE
      [] d = "Right" /\ piece[2] >= c - 1 -> TRUE
      [] d = "Up"    /\ piece[1] <= 0     -> TRUE
      [] d = "Left"  /\ piece[2] <= 0     -> TRUE
      [] OTHER -> FALSE

piece_update(piece, d) ==
    CASE d = "Down"  -> <<piece[1] + 1, piece[2]>>
      [] d = "Right" -> <<piece[1], piece[2] + 1>>
      [] d = "Up"    -> <<piece[1] - 1, piece[2]>>
      [] d = "Left"  -> <<piece[1], piece[2] - 1>>

(***************************************************************************)
(* Snake                                                                   *)
(***************************************************************************)
\* set_direction without the reversal guards
set_direction_unguarded(last_dir, nd) == nd

\* set_direction whose Left arm tests the wrong heading
set_direction_typo(last_dir, nd) ==
    CASE nd = "Left"  /\ last_dir # "Left"  -> "Left"
      [] nd = "Down"  /\ last_dir # "Up"    -> "Down"
      [] nd = "Up"    /\ last_dir # "Down"  -> "Up"
      [] nd = "Right" /\ last_dir # "Left"  -> "Right"
      [] OTHER -> last_dir

set_direction(last_dir, nd) ==
    CASE nd = "Left"  /\ last_dir # "Right" -> "Left"
      [] nd = "Down"  /\ last_dir # "Up"    -> "Down"
      [] nd = "Up"    /\ last_dir # "Down"  -> "Up"
      [] nd = "Right" /\ last_dir # "Left"  -> "Right"
      [] OTHER -> last_dir

\* is_collide that leaves the tail out
snake_is_collide_skip_tail(ps, y, x) ==
    \E i \in 1..(Len(ps) - 1) : y = ps[i][1] /\ x = ps[i][2]

snake_is_collide(ps, y, x) ==
    \E i \in 1..Len(ps) : y = ps[i][1] /\ x = ps[i][2]

push_front(ps, piece) == <<piece>> \o ps

\* pop_front in place of pop_back
pop_back_front(ps) == SubSeq(ps, 2, Len(ps))

pop_back(ps) == SubSeq(ps, 1, Len(ps) - 1)

\* Snake::update with `self.speed = self.speed * 9 / 10`
snake_update_nine_tenths(ps, d, je, sc, sp, r, c) ==
    LET unchanged == [parts |-> ps, just_eaten |-> je, score |-> sc, speed |-> sp]
        new_head  == piece_update(Head(ps), d)
    IN  IF is_collide_edge(Head(ps), d, r, c)
        THEN [ret |-> FALSE] @@ unchanged
        ELSE IF snake_is_collide(ps, new_head[1], new_head[2])
        THEN [ret |-> FALSE] @@ unchanged
        ELSE IF je
        THEN [ret |-> TRUE, parts |-> push_front(ps, new_head),
              just_eaten |-> FALSE, score |-> sc + 1,
              speed |-> (sp * 9) \div SpeedDivisor]
        ELSE [ret |-> TRUE, parts |-> pop_back(push_front(ps, new_head)),
              just_eaten |-> je, score |-> sc, speed |-> sp]

\* Snake::update that pushes the new head before it tests the body
snake_update_push_before_check(ps, d, je, sc, sp, r, c) ==
    LET unchanged == [parts |-> ps, just_eaten |-> je, score |-> sc, speed |-> sp]
        new_head  == piece_update(Head(ps), d)
    IN  IF is_collide_edge(Head(ps), d, r, c)
        THEN [ret |-> FALSE] @@ unchanged
        ELSE IF snake_is_collide(ps, new_head[1], new_head[2])
        THEN [ret |-> FALSE, parts |-> push_front(ps, new_head),
              just_eaten |-> je, score |-> sc, speed |-> sp]
        ELSE IF je
        THEN [ret |-> TRUE, parts |-> push_front(ps, new_head),
              just_eaten |-> FALSE, score |-> sc + 1,
              speed |-> sp - (sp \div SpeedDivisor)]
        ELSE [ret |-> TRUE, parts |-> pop_back(push_front(ps, new_head)),
              just_eaten |-> je, score |-> sc, speed |-> sp]

\* Snake::update that pushes the new head in the growth branch only
snake_update_push_on_growth(ps, d, je, sc, sp, r, c) ==
    LET unchanged == [parts |-> ps, just_eaten |-> je, score |-> sc, speed |-> sp]
        new_head  == piece_update(Head(ps), d)
    IN  IF is_collide_edge(Head(ps), d, r, c)
        THEN [ret |-> FALSE] @@ unchanged
        ELSE IF snake_is_collide(ps, new_head[1], new_head[2])
        THEN [ret |-> FALSE] @@ unchanged
        ELSE IF je
        THEN [ret |-> TRUE, parts |-> push_front(ps, new_head),
              just_eaten |-> FALSE, score |-> sc + 1,
              speed |-> sp - (sp \div SpeedDivisor)]
        ELSE [ret |-> TRUE, parts |-> pop_back(ps),
              just_eaten |-> je, score |-> sc, speed |-> sp]

\* Snake::update that removes the tail in the growth branch too
snake_update_always_pop(ps, d, je, sc, sp, r, c) ==
    LET unchanged == [parts |-> ps, just_eaten |-> je, score |-> sc, speed |-> sp]
        new_head  == piece_update(Head(ps), d)
    IN  IF is_collide_edge(Head(ps), d, r, c)
        THEN [ret |-> FALSE] @@ unchanged
        ELSE IF snake_is_collide(ps, new_head[1], new_head[2])
        THEN [ret |-> FALSE] @@ unchanged
        ELSE IF je
        THEN [ret |-> TRUE, parts |-> pop_back(push_front(ps, new_head)),
              just_eaten |-> FALSE, score |-> sc + 1,
              speed |-> sp - (sp \div SpeedDivisor)]
        ELSE [ret |-> TRUE, parts |-> pop_back(push_front(ps, new_head)),
              just_eaten |-> je, score |-> sc, speed |-> sp]

\* Snake::update on a snake with a body: the returned bool and the fields
\* after the call.
snake_update(ps, d, je, sc, sp, r, c) ==
    LET unchanged == [parts |-> ps, just_eaten |-> je, score |-> sc, speed |-> sp]
        new_head  == piece_update(Head(ps), d)
    IN  IF is_collide_edge(Head(ps), d, r, c)
        THEN [ret |-> FALSE] @@ unchanged
        ELSE IF snake_is_collide(ps, new_head[1], new_head[2])
        THEN [ret |-> FALSE] @@ unchanged
        ELSE IF je
        THEN [ret |-> TRUE, parts |-> push_front(ps, new_head),
              just_eaten |-> FALSE, score |-> sc + 1,
              speed |-> sp - (sp \div SpeedDivisor)]
        ELSE [ret |-> TRUE, parts |-> pop_back(push_front(ps, new_head)),
              just_eaten |-> je, score |-> sc, speed |-> sp]

(***************************************************************************)
(* Food                                                                    *)
(***************************************************************************)
\* is_collide with `||` for `&&`
food_is_collide_or(f, y, x) == f[1] = y \/ f[2] = x

food_is_collide(f, y, x) == f[1] = y /\ f[2] = x

(***************************************************************************)
(* main: the initial game                                                  *)
(***************************************************************************)
InitGame(r, c) ==
    /\ rows = r
    /\ cols = c
    /\ parts = << <<r \div 2, c \div 2>>, <<r \div 2, c \div 2 - 1>> >>
    /\ dir = "Right"
    /\ just_eaten = FALSE
    /\ score = 0
    /\ speed = StartSpeed
    /\ food = <<r \div 2 + FoodOffset, r \div 2 + FoodOffset>>

Init ==
    /\ \E w \in Windows : InitGame(w[1], w[2])
    /\ quit = FALSE
    /\ pc = "getch"
    /\ new_dir = <<>>
    /\ old = <<>>
    /\ snake_ret = <<>>
    /\ game_ret = <<>>
    /\ ticks_left = MaxTicks

(***************************************************************************)
(* main: one iteration of `while !quit`                                    *)
(***************************************************************************)
Snapshot ==
    [parts |-> parts, dir |-> dir, just_eaten |-> just_eaten, score |-> score,
     speed |-> speed, food |-> food]

\* match window.getch(): F1 sets quit, any other key goes to Game::input,
\* None is ignored.
Getch ==
    /\ pc = "getch"
    /\ ticks_left > 0
    /\ \E key \in Keys :
         IF key = "F1"
         THEN /\ quit' = TRUE
              /\ new_dir' = <<>>
              /\ dir' = dir
         ELSE IF key = "timeout"
         THEN /\ quit' = quit
              /\ new_dir' = <<>>
              /\ dir' = dir
         ELSE /\ quit' = quit
              /\ new_dir' = Direction_input(key)
              /\ dir' = IF new_dir' = <<>> THEN dir
                        ELSE set_direction(dir, new_dir'[1])
    /\ ticks_left' = ticks_left - 1
    /\ pc' = "snake_update"
    /\ UNCHANGED <<rows, cols, parts, just_eaten, score, speed, food, old,
                   snake_ret, game_ret>>

\* Game::update, first statement: self.snake.update(rows, cols); a false
\* result is returned at once and main sets quit.
SnakeUpdate ==
    /\ pc = "snake_update"
    /\ old' = <<Snapshot>>
    /\ IF parts = <<>>
       THEN /\ pc' = "abort"
            /\ UNCHANGED <<parts, just_eaten, score, speed, quit, snake_ret,
                           game_ret>>
       ELSE LET r == snake_update(parts, dir, just_eaten, score, speed, rows, cols)
            IN  /\ parts' = r.parts
                /\ just_eaten' = r.just_eaten
                /\ score' = r.score
                /\ speed' = r.speed
                /\ snake_ret' = <<r.ret>>
                /\ IF r.ret
                   THEN /\ pc' = "food_update"
                        /\ game_ret' = <<>>
                        /\ quit' = quit
                   ELSE /\ game_ret' = <<FALSE>>
                        /\ quit' = TRUE
                        /\ pc' = "loop_test"
    /\ UNCHANGED <<rows, cols, dir, food, new_dir, ticks_left>>

\* Food::update up to `if eaten`; when the head is not on the food it
\* returns false, Game::update stores it in just_eaten and returns true.
FoodUpdate ==
    /\ pc = "food_update"
    /\ IF parts = <<>>
       THEN /\ pc' = "abort"
            /\ UNCHANGED <<just_eaten, game_ret>>
       ELSE LET snake_head == Head(parts)
                eaten == food_is_collide(food, snake_head[1], snake_head[2])
            IN  IF eaten
                THEN /\ pc' = "relocate"
                     /\ UNCHANGED <<just_eaten, game_ret>>
                ELSE /\ just_eaten' = eaten
                     /\ game_ret' = <<TRUE>>
                     /\ pc' = "loop_test"
    /\ UNCHANGED <<rows, cols, parts, dir, score, speed, food, quit, new_dir,
                   old, snake_ret, ticks_left>>

\* the relocation loop taking its first sample without testing the snake
FoodRelocate_unchecked ==
    /\ pc = "relocate"
    /\ \E new_y \in 0..(rows - 1), new_x \in 0..(cols - 1) :
         food' = <<new_y, new_x>>
    /\ just_eaten' = TRUE
    /\ game_ret' = <<TRUE>>
    /\ pc' = "loop_test"
    /\ UNCHANGED <<rows, cols, parts, dir, score, speed, quit, new_dir, old,
                   snake_ret, ticks_left>>

\* the relocation loop with its test inverted: it leaves on an occupied cell
FoodRelocate_inverted ==
    /\ pc = "relocate"
    /\ \E new_y \in 0..(rows - 1), new_x \in 0..(cols - 1) :
         /\ snake_is_collide(parts, new_y, new_x)
         /\ food' = <<new_y, new_x>>
    /\ just_eaten' = TRUE
    /\ game_ret' = <<TRUE>>
    /\ pc' = "loop_test"
    /\ UNCHANGED <<rows, cols, parts, dir, score, speed, quit, new_dir, old,
                   snake_ret, ticks_left>>

\* Game::update dropping the result of Food::update after a relocation
FoodRelocate_result_dropped ==
    /\ pc = "relocate"
    /\ \E new_y \in 0..(rows - 1), new_x \in 0..(cols - 1) :
         /\ ~snake_is_collide(parts, new_y, new_x)
         /\ food' = <<new_y, new_x>>
    /\ just_eaten' = just_eaten
    /\ game_ret' = <<TRUE>>
    /\ pc' = "loop_test"
    /\ UNCHANGED <<rows, cols, parts, dir, score, speed, quit, new_dir, old,
                   snake_ret, ticks_left>>

\* the relocation sampling 0..=rows and 0..=cols
FoodRelocate_inclusive ==
    /\ pc = "relocate"
    /\ \E new_y \in 0..rows, new_x \in 0..cols :
         /\ ~snake_is_collide(parts, new_y, new_x)
         /\ food' = <<new_y, new_x>>
    /\ just_eaten' = TRUE
    /\ game_ret' = <<TRUE>>
    /\ pc' = "loop_test"
    /\ UNCHANGED <<rows, cols, parts, dir, score, speed, quit, new_dir, old,
                   snake_ret, ticks_left>>

\* One pass of the relocation loop whose sample is a free cell: the food
\* moves there, Food::update returns true, Game::update stores it and
\* returns true.
FoodRelocate ==
    /\ pc = "relocate"
    /\ \E new_y \in 0..(rows - 1), new_x \in 0..(cols - 1) :
         /\ ~snake_is_collide(parts, new_y, new_x)
         /\ food' = <<new_y, new_x>>
    /\ just_eaten' = TRUE
    /\ game_ret' = <<TRUE>>
    /\ pc' = "loop_test"
    /\ UNCHANGED <<rows, cols, parts, dir, score, speed, quit, new_dir, old,
                   snake_ret, ticks_left>>

\* One pass of the relocation loop whose sample is on the snake: the loop
\* goes round again.
FoodResample ==
    /\ pc = "relocate"
    /\ \E new_y \in 0..(rows - 1), new_x \in 0..(cols - 1) :
         snake_is_collide(parts, new_y, new_x)
    /\ UNCHANGED vars

\* a loop that never tests quit
LoopTest_forever ==
    /\ pc = "loop_test"
    /\ pc' = "getch"
    /\ UNCHANGED <<rows, cols, parts, dir, just_eaten, score, speed, food,
                   quit, new_dir, old, snake_ret, game_ret, ticks_left>>

\* `while !quit`
LoopTest ==
    /\ pc = "loop_test"
    /\ pc' = IF quit THEN "exit" ELSE "getch"
    /\ UNCHANGED <<rows, cols, parts, dir, just_eaten, score, speed, food,
                   quit, new_dir, old, snake_ret, game_ret, ticks_left>>

Next ==
    \/ Getch
    \/ SnakeUpdate
    \/ FoodUpdate
    \/ FoodRelocate
    \/ FoodResample
    \/ LoopTest

Spec == Init /\ [][Next]_vars

(***************************************************************************)
(* Mid-game states.  Between two iterations of the loop the snake is a     *)
(* chain of pairwise distinct grid cells, each adjacent to the next        *)
(* (Snake::update only ever prepends the translated head and drops the     *)
(* tail), it heads away from its second segment, it has score + 2          *)
(* segments, its speed is StartSpeed after `score` decrements, and the     *)
(* food lies on a free cell of the grid.  MidInit starts the loop in every *)
(* such state of a small grid.                                             *)
(***************************************************************************)
Cells(r, c) == (0..(r - 1)) \X (0..(c - 1))

Adjacent(p, q) ==
    \/ p[1] = q[1] /\ (p[2] = q[2] + 1 \/ q[2] = p[2] + 1)
    \/ p[2] = q[2] /\ (p[1] = q[1] + 1 \/ q[1] = p[1] + 1)

RECURSIVE Chains(_, _, _)
Chains(n, r, c) ==
    IF n = 1
    THEN {<<p>> : p \in Cells(r, c)}
    ELSE UNION {{Append(s, q) : q \in {q \in Cells(r, c) :
                                        /\ Adjacent(s[Len(s)], q)
                                        /\ \A i \in 1..Len(s) : s[i] # q}} :
                s \in Chains(n - 1, r, c)}

\* the heading that took the second segment's cell to the head's cell
HeadingOf(ps) ==
    CHOOSE d \in Directions : piece_update(ps[2], d) = ps[1]

RECURSIVE SpeedAfter(_)
SpeedAfter(n) ==
    IF n = 0 THEN StartSpeed
    ELSE SpeedAfter(n - 1) - (SpeedAfter(n - 1) \div SpeedDivisor)

MidInit ==
    /\ \E r \in 1..MidRows, c \in 1..MidCols :
         /\ rows = r
         /\ cols = c
         /\ \E n \in 2..MaxLen :
              /\ parts \in Chains(n, r, c)
              /\ score = n - 2
              /\ speed = SpeedAfter(n - 2)
         /\ food \in {f \in Cells(r, c) : ~snake_is_collide(parts, f[1], f[2])}
    /\ dir = HeadingOf(parts)
    /\ just_eaten \in BOOLEAN
    /\ quit = FALSE
    /\ pc = "getch"
    /\ new_dir = <<>>
    /\ old = <<>>
    /\ snake_ret = <<>>
    /\ game_ret = <<>>
    /\ ticks_left = MidTicks

SpecMid == MidInit /\ [][Next]_vars

\* A long game.  In a window one row high the snake can only run right, so
\* a game can be followed for as many growth ticks as the window has
\* columns: a fresh two-segment snake at the left end, the food on the
\* cell ahead of it.
CorridorInit ==
    /\ rows = 1
    /\ cols = CorridorCols
    /\ parts = << <<0, 1>>, <<0, 0>> >>
    /\ dir = "Right"
    /\ just_eaten = FALSE
    /\ score = 0
    /\ speed = StartSpeed
    /\ food = <<0, 2>>
    /\ quit = FALSE
    /\ pc = "getch"
    /\ new_dir = <<>>
    /\ old = <<>>
    /\ snake_ret = <<>>
    /\ game_ret = <<>>
    /\ ticks_left = CorridorCols

SpecCorridor == CorridorInit /\ [][Next]_vars

\* Fair sampling: a cell that can be drawn again and again is drawn in the
\* end, so a pass of the relocation loop that finds a free cell happens
\* whenever one stays possible.
SpecMidFair == MidInit /\ [][Next]_vars /\ WF_vars(FoodRelocate)

(***************************************************************************)
(* Properties.  `old` is the game as the last Game.update found it, so a   *)
(* state with old # <<>> is a state after (or inside) that call.           *)
(***************************************************************************)
Opposite(d) ==
    CASE d = "Left"  -> "Right"
      [] d = "Right" -> "Left"
      [] d = "Up"    -> "Down"
      [] d = "Down"  -> "Up"

\* the cell one step from p along d
Translated(p, d) ==
    CASE d = "Up"    -> <<p[1] - 1, p[2]>>
      [] d = "Down"  -> <<p[1] + 1, p[2]>>
      [] d = "Left"  -> <<p[1], p[2] - 1>>
      [] d = "Right" -> <<p[1], p[2] + 1>>

Called == old # <<>>
OldHead == Head(old[1].parts)
OldNewHead == Translated(OldHead, old[1].dir)
OnSegment(p, ps) == \E i \in 1..Len(ps) : ps[i] = p
InGrid(p) == 0 <= p[1] /\ p[1] < rows /\ 0 <= p[2] /\ p[2] < cols

\* C1: set_direction(d) with heading h leaves the heading d unless d is the
\* exact opposite of h, in which case the heading stays h; no other field
\* of the snake changes.  Stated of every step that reads a direction key.
C1_SetDirection ==
    [][(pc = "getch" /\ new_dir' # <<>>) =>
          /\ dir' = IF new_dir'[1] = Opposite(dir) THEN dir ELSE new_dir'[1]
          /\ parts' = parts
          /\ just_eaten' = just_eaten
          /\ score' = score
          /\ speed' = speed]_vars

\* a reversal was asked for and the heading stayed what it was
C1_Witness ==
    /\ pc = "snake_update"
    /\ new_dir = <<Opposite(dir)>>

\* the head is on the boundary row or column the heading points at
AtBoundary(p, d) ==
    \/ d = "Up"    /\ p[1] = 0
    \/ d = "Down"  /\ p[1] = rows - 1
    \/ d = "Left"  /\ p[2] = 0
    \/ d = "Right" /\ p[2] = cols - 1

\* C2: when the head is at the boundary cell in the direction of travel,
\* Snake.update returns false and the segment sequence is what it was.
C2_EdgeGameOver ==
    (Called /\ AtBoundary(OldHead, old[1].dir)) =>
        /\ snake_ret = <<FALSE>>
        /\ parts = old[1].parts

C2_Witness ==
    /\ Called
    /\ AtBoundary(OldHead, old[1].dir)
    /\ snake_ret = <<FALSE>>
    /\ pc = "exit"

\* C3: when the head translated one cell along the heading equals a segment
\* of the body as it is before the tail is removed (the tail included),
\* Snake.update returns false.
C3_SelfGameOver ==
    (Called /\ OnSegment(OldNewHead, old[1].parts)) => snake_ret = <<FALSE>>

\* the translated head is the tail's cell, inside the grid
C3_Witness ==
    /\ Called
    /\ ~AtBoundary(OldHead, old[1].dir)
    /\ OldNewHead = old[1].parts[Len(old[1].parts)]
    /\ snake_ret = <<FALSE>>

\* C4: a successful Snake.update entered with just_eaten = true prepends the
\* new head and keeps the tail (one segment more), adds exactly 1 to score,
\* takes floor(speed / 10) off speed and leaves just_eaten false.
C4_Growth ==
    (Called /\ old[1].just_eaten /\ snake_ret = <<TRUE>>) =>
        /\ Len(parts) = Len(old[1].parts) + 1
        /\ parts = <<OldNewHead>> \o old[1].parts
        /\ score = old[1].score + 1
        /\ speed = old[1].speed - (old[1].speed \div 10)
        /\ (pc \in {"food_update", "relocate"} => just_eaten = FALSE)

C4_Witness ==
    /\ Called
    /\ old[1].just_eaten
    /\ snake_ret = <<TRUE>>
    /\ pc = "food_update"

\* C5: a successful Snake.update entered with just_eaten = false keeps the
\* segment count: the new sequence is the translated head followed by the
\* old sequence without its last element; score and speed are unchanged.
C5_NoGrowth ==
    (Called /\ ~old[1].just_eaten /\ snake_ret = <<TRUE>>) =>
        /\ Len(parts) = Len(old[1].parts)
        /\ parts = <<OldNewHead>> \o SubSeq(old[1].parts, 1, Len(old[1].parts) - 1)
        /\ score = old[1].score
        /\ speed = old[1].speed

C5_Witness ==
    /\ Called
    /\ ~old[1].just_eaten
    /\ snake_ret = <<TRUE>>
    /\ pc = "food_update"

\* Food.update has returned true in the last Game.update
Relocated == Called /\ game_ret = <<TRUE>> /\ just_eaten

\* C6: whenever Food.update has relocated the food, the food is inside the
\* grid and on no segment of the snake, whatever cell was sampled.
C6_RelocationFree ==
    Relocated => (InGrid(food) /\ ~OnSegment(food, parts))

C6_Witness ==
    /\ Relocated
    /\ pc = "loop_test"
    /\ food # old[1].food

\* the last Game.update returned true and its move put the head on the food
Ate ==
    /\ Called
    /\ game_ret = <<TRUE>>
    /\ parts # old[1].parts
    /\ Head(parts) = old[1].food

\* the last Snake.update was entered with just_eaten = true and succeeded
Grew == Called /\ old[1].just_eaten /\ snake_ret = <<TRUE>>

\* C7 as stated: the Game.update whose move puts the head on the food
\* leaves the segment count and the score as they were and sets just_eaten;
\* the next successful update adds 1 to each; and Snake.update is entered
\* with just_eaten = true only right after such a Game.update.
C7_AsStated ==
    /\ Ate => /\ Len(parts) = Len(old[1].parts)
              /\ score = old[1].score
              /\ just_eaten
    /\ Grew => /\ Len(parts) = Len(old[1].parts) + 1
               /\ score = old[1].score + 1
    /\ (pc = "snake_update" /\ just_eaten) => Ate

\* C7 (amended): the Game.update whose move puts the head on the food sets
\* just_eaten and, when it was entered with just_eaten = false, leaves the
\* segment count and the score as they were (entered with just_eaten =
\* true, it adds the 1 owed to the food of the tick before); the next
\* successful update adds 1 to each; and Snake.update is entered with
\* just_eaten = true only right after such a Game.update.
C7_EatThenGrow ==
    /\ Ate => /\ just_eaten
              /\ ~old[1].just_eaten => /\ Len(parts) = Len(old[1].parts)
                                       /\ score = old[1].score
              /\ old[1].just_eaten => /\ Len(parts) = Len(old[1].parts) + 1
                                      /\ score = old[1].score + 1
    /\ Grew => /\ Len(parts) = Len(old[1].parts) + 1
               /\ score = old[1].score + 1
    /\ (pc = "snake_update" /\ just_eaten) => Ate

\* the tick after the first meal: three segments, score 1
C7_Witness ==
    /\ Grew
    /\ game_ret = <<TRUE>>
    /\ Len(parts) = 3
    /\ score = 1
    /\ speed < StartSpeed

\* C8: Food.update returns true iff the head is on the food when it is
\* called; the food moves exactly then, to another cell, and stays where
\* it is when the head is not on it.
C8_EatenIffHeadOnFood ==
    (Called /\ game_ret = <<TRUE>>) =>
        LET on_food == Head(parts) = old[1].food
        IN  /\ just_eaten = on_food
            /\ on_food => food # old[1].food
            /\ ~on_food => food = old[1].food

C8_Witness ==
    /\ Called
    /\ game_ret = <<TRUE>>
    /\ Head(parts) = old[1].food
    /\ just_eaten
    /\ food # old[1].food

\* C9: the snake always has at least one segment, so neither the expect in
\* Snake.update nor the unwraps in Snake.update and Food.update abort.
C9_NeverEmpty ==
    /\ Len(parts) >= 1
    /\ pc # "abort"

\* a tick that went through pop_back().unwrap() and front().unwrap()
C9_Witness ==
    /\ Called
    /\ ~old[1].just_eaten
    /\ snake_ret = <<TRUE>>
    /\ game_ret = <<TRUE>>
    /\ pc = "loop_test"

\* C10: Game.update returns false exactly when Snake.update does, main
\* then sets quit, and from a state in which Game.update has returned
\* false the only step is the loop test leaving the loop: no input, no
\* update and no relocation touches the game again.
C10_GameOverTerminal ==
    [][/\ game_ret' # <<>> => (game_ret' = <<FALSE>> <=> snake_ret' = <<FALSE>>)
       /\ snake_ret' = <<FALSE>> => game_ret' = <<FALSE>>
       /\ game_ret' = <<FALSE>> => quit'
       /\ game_ret = <<FALSE>> =>
            /\ pc = "loop_test"
            /\ pc' = "exit"
            /\ UNCHANGED <<parts, dir, just_eaten, score, speed, food>>]_vars

C10_Witness ==
    /\ game_ret = <<FALSE>>
    /\ snake_ret = <<FALSE>>
    /\ pc = "exit"

\* C11: collision is the only way Snake.update fails.  With the head inside
\* the grid, Snake.update returns true exactly when the translated head is
\* inside [0, rows) x [0, cols) and on no segment of the body: the test made
\* on the head before it is translated agrees with the bounds test on the
\* translated head.
C11_CollisionOnlyFailure ==
    (Called /\ InGrid(OldHead)) =>
        (snake_ret = <<TRUE>> <=>
            (InGrid(OldNewHead) /\ ~OnSegment(OldNewHead, old[1].parts)))

\* a successful move onto the last row or column in the direction of travel
C11_Witness ==
    /\ Called
    /\ InGrid(OldHead)
    /\ snake_ret = <<TRUE>>
    /\ Head(parts) = OldNewHead
    /\ AtBoundary(Head(parts), old[1].dir)

\* C12: a Game.update that returns false leaves the whole game as it found
\* it: segments, heading, just_eaten, score, speed and food.
C12_FailureChangesNothing ==
    (Called /\ game_ret = <<FALSE>>) =>
        /\ parts = old[1].parts
        /\ dir = old[1].dir
        /\ just_eaten = old[1].just_eaten
        /\ score = old[1].score
        /\ speed = old[1].speed
        /\ food = old[1].food

\* a self collision with a growth still owed
C12_Witness ==
    /\ Called
    /\ game_ret = <<FALSE>>
    /\ ~AtBoundary(OldHead, old[1].dir)
    /\ old[1].just_eaten
    /\ pc = "exit"

\* C13: in a window of at least 1 row and 2 columns every segment of the
\* snake is inside the grid, in every state reached from main's initial one.
C13_SegmentsInGrid ==
    (rows >= 1 /\ cols >= 2) => \A i \in 1..Len(parts) : InGrid(parts[i])

\* the snake stopped by the edge, still inside the grid
C13_Witness ==
    /\ rows >= 1
    /\ cols >= 2
    /\ Called
    /\ snake_ret = <<FALSE>>
    /\ AtBoundary(Head(parts), dir)
    /\ pc = "exit"

FreeCells == {f \in Cells(rows, cols) : ~OnSegment(f, parts)}

\* C14: under fair sampling the relocation loop of Food.update ends whenever
\* a cell of the grid is free, and it goes on for ever when the snake
\* occupies the whole grid at the moment the food is eaten.
C14_RelocationTerminates ==
    /\ (pc = "relocate" /\ FreeCells # {}) ~> (pc # "relocate")
    /\ [][(pc = "relocate" /\ FreeCells = {}) => pc' = "relocate"]_vars

\* the food eaten by a snake that fills the grid
C14_Witness ==
    /\ pc = "relocate"
    /\ FreeCells = {}
    /\ Len(parts) = rows * cols

\* C15: with at most one input between two updates, the heading a
\* Snake.update is entered with never points from the head to the second
\* segment: the translated head is never the second segment, and a failed
\* update never failed on it.
C15_NoReversal ==
    /\ (pc = "snake_update" /\ Len(parts) >= 2) =>
           Translated(Head(parts), dir) # parts[2]
    /\ (Called /\ Len(old[1].parts) >= 2) => OldNewHead # old[1].parts[2]

\* a reversal was asked for, ignored, and the update that followed succeeded
C15_Witness ==
    /\ Called
    /\ pc = "food_update"
    /\ new_dir = <<Opposite(old[1].dir)>>
    /\ snake_ret = <<TRUE>>

\* C16: the food is inside the grid in every reachable state, the initial
\* one included, whatever the size of the window.
C16_FoodInGrid == InGrid(food)

\* the loop is between two ticks: before Game.update is entered or after
\* it has returned
BetweenTicks == pc \in {"getch", "snake_update", "loop_test", "exit"}

\* C17: between ticks the food is on no segment of the snake; the head is
\* on the food only inside Game.update, after Snake.update and before
\* Food.update has returned, and no other segment is ever on it.
C17_FoodOffSnake ==
    /\ BetweenTicks => ~OnSegment(food, parts)
    /\ OnSegment(food, parts) =>
          /\ pc \in {"food_update", "relocate"}
          /\ Head(parts) = food
          /\ \A i \in 2..Len(parts) : parts[i] # food

\* inside Game.update, the head has just moved onto the food
C17_Witness ==
    /\ pc = "food_update"
    /\ Head(parts) = food
    /\ snake_ret = <<TRUE>>

\* C18: the snake has score + 2 segments in every reachable state.
C18_LengthIsScorePlusTwo == Len(parts) = score + 2

\* after two growth ticks
C18_Witness ==
    /\ score = 2
    /\ Len(parts) = 4
    /\ Grew

\* C19: from speed 500 on, speed stays between 9 and 500 and is never
\* zero or negative, no step raises it, and a growth tick entered with a
\* speed below 10 leaves it as it is.
C19_SpeedBounds ==
    [][/\ 9 <= speed /\ speed <= 500
       /\ 9 <= speed' /\ speed' <= 500
       /\ speed' <= speed
       /\ (Grew' /\ old'[1].speed < 10) => speed' = old'[1].speed]_vars

\* a growth tick at the floor
C19_Witness ==
    /\ Grew
    /\ old[1].speed = 9
    /\ speed = 9
    /\ score = old[1].score + 1

\* C20: the segments of the snake are pairwise distinct cells in every
\* reachable state.
C20_SegmentsDistinct ==
    \A i, j \in 1..Len(parts) : i # j => parts[i] # parts[j]

\* a snake that has just grown with its head beside its own tail
C20_Witness ==
    /\ Grew
    /\ game_ret = <<TRUE>>
    /\ Len(parts) >= 4
    /\ Adjacent(Head(parts), parts[Len(parts)])

====
